---- MODULE Spec2Model ----
(***************************************************************************)
(* Model of the ingestion pipeline of MAIN.py: the concurrent per-symbol   *)
(* fetch (DataFetcher), the fuzzy schema resolution and cleaning of the    *)
(* four external files (DataLoader), the alignment and the train/test      *)
(* split (Preprocessor), and the main flow that joins them.                *)
(*                                                                         *)
(* Dates are day numbers 1..MaxDay, NaT is the undefined date.  A table    *)
(* (DataFrame) of one symbol is a sequence of rows in row order.           *)
(***************************************************************************)
EXTENDS Integers, Sequences, FiniteSets, TLC

VARIABLES
    \* ---- main() ----
    pc,             \* position of main()
    data_files,     \* load_multiple_files: file type -> loaded table
    load_log,       \* file types for which load_data has been called, in order
    symbol_ids,     \* portfolio_symbol_ids, the list typed by the user
    task,           \* per task of asyncio.gather: its position
    results,        \* per task: what its coroutine returned
    gathered,       \* the list asyncio.gather builds, one slot per awaitable
    done_order,     \* the tasks in the order they completed, while gather waits
    failed,         \* per task: the remote source raised or gave no history
    symbol_data,    \* dict(zip(symbol_ids, results)) of line 133
    prices,         \* the combined price table
    split,          \* what process_data returned
    files_written,  \* the output files written by the export step
    \* ---- DataFetcher.fetch_daily_history on one remote answer ----
    daily_history,  \* the remote answer
    stock_df,       \* the coroutine's outcome
    \* ---- DataLoader.load_data on one selected file ----
    file_sel,       \* what the file dialog and the reader gave
    columns,        \* df.columns, each label as its normalized key
    score,          \* fuzz.token_sort_ratio: query -> key -> 0..100
    mapped_columns, \* required field -> the column it was resolved to
    raw_rows,       \* the rows of the file, seen through the resolved columns
    load_pc,        \* position of load_data
    load_out,       \* the table load_data returned
    \* ---- Preprocessor.align_datasets and Preprocessor.process_data ----
    prep_pc,        \* position of align_datasets or of process_data
    prep_args,      \* the five arguments of process_data
    prep_datasets,  \* the inputs of align_datasets
    prep_combined,  \* the index of the table align_datasets returned
    built,          \* X, y and combined_final of lines 417-430
    prep_out        \* what process_data returned

fetchVars == <<daily_history, stock_df>>
loadVars  == <<file_sel, columns, score, mapped_columns, raw_rows, load_pc, load_out>>
mainVars  == <<pc, data_files, load_log, symbol_ids, task, results, gathered, done_order, failed,
               symbol_data, prices, split, files_written>>
prepVars  == <<prep_pc, prep_args, prep_datasets, prep_combined, built, prep_out>>
vars == <<mainVars, fetchVars, loadVars, prepVars>>

-----------------------------------------------------------------------------
(* Bounds of the model *)

MaxDay     == 3   \* dates are the days 1..MaxDay
MaxHist    == 3   \* records in one remote daily history
MaxSymbols == 3   \* symbol ids typed by the user
MaxCols    == 2   \* columns of an external file
MaxRows    == 2   \* rows of an external file
MaxInputs  == 2   \* inputs of one call of align_datasets
MaxDate    == 4   \* process_data is run on the dates 1..MaxDate

Days == 1..MaxDay

\* pd.NaT, the undefined date
NaT == 0
\* NaN, what pd.to_numeric(errors='coerce') gives for an unparseable value
NaN == -1

\* pd.DataFrame(): no rows
EmptyDF == <<>>

Range(s) == {s[i] : i \in DOMAIN s}

SeqsUpTo(S, n) == UNION {[1..k -> S] : k \in 0..n}

Min(S) == CHOOSE x \in S : \A y \in S : x <= y

RemoveAt(s, i) == [j \in 1..(Len(s) - 1) |-> IF j < i THEN s[j] ELSE s[j + 1]]

-----------------------------------------------------------------------------
(* DataFetcher.fetch_daily_history *)

\* Days between the Jalali and the Gregorian count of the same day.
JalaliShift == 5

\* row.date as the remote source hands it out: a jdatetime.date, a datetime
\* with a time of day, a value of another type, or one whose conversion raises.
RawDates ==
    [kind : {"jalali"}, day : {d + JalaliShift : d \in Days}, tod : {0}]
    \cup [kind : {"gregorian"}, day : Days, tod : {1}]
    \cup [kind : {"other", "raises"}, day : {0}, tod : {0}]

\* row.close as the remote source hands it out
RawCloses == {"10", "abc"}

RawRecords == [date : RawDates, close : RawCloses]

\* What awaiting symbol.get_daily_history_async() gives: an exception or a list
Remotes(n) == [raises : {TRUE}, rows : {<<>>}]
              \cup [raises : {FALSE}, rows : SeqsUpTo(RawRecords, n)]

\* row.date.togregorian()
togregorian(raw) == raw.day - JalaliShift

\* lines 87-93: the date of one record, normalize() cutting the time of day
ConvertDate(raw) ==
    IF raw.kind = "jalali" THEN togregorian(raw)
    ELSE IF raw.kind = "gregorian" THEN raw.day
    ELSE NaT

\* lines 83-102: the loop over the records; a record whose conversion raises
\* is skipped by the inner except
RECURSIVE StockData(_)
StockData(rows) ==
    IF rows = <<>> THEN <<>>
    ELSE LET row == Head(rows) IN
         IF row.date.kind = "raises" THEN StockData(Tail(rows))
         ELSE <<[date |-> ConvertDate(row.date), close |-> row.close]>>
              \o StockData(Tail(rows))

DropNaTKeepsAll(df) == df

\* dropna(subset=['date'])
DropNaT(df) == SelectSeq(df, LAMBDA r : r.date # NaT)

\* sort_values('date') with the default kind, which is not stable: rows of
\* equal date come out in any order
RECURSIVE SortValues(_)
SortValues(df) ==
    IF df = <<>> THEN {<<>>}
    ELSE LET m == Min({df[i].date : i \in DOMAIN df}) IN
         UNION {{<<df[i]>> \o t : t \in SortValues(RemoveAt(df, i))} :
                    i \in {j \in DOMAIN df : df[j].date = m}}

DropDuplicatesNone(df) == df

\* drop_duplicates(subset='date'): the first row of each date is kept
DropDuplicates(df) ==
    LET keep == {i \in DOMAIN df : \A j \in 1..(i - 1) : df[j].date # df[i].date}
        RECURSIVE Pick(_)
        Pick(i) == IF i > Len(df) THEN <<>>
                   ELSE (IF i \in keep THEN <<df[i]>> ELSE <<>>) \o Pick(i + 1)
    IN Pick(1)

\* pd.to_numeric(errors='coerce') of one cell
ToNumeric(c) ==
    CASE c = "10" -> 10
      [] c = "20" -> 20
      [] c = "5"  -> 5
      [] c = "7"  -> 7
      [] OTHER    -> NaN

\* lines 106-107: close coerced to a number, rows without one dropped
NumericClose(df) ==
    SelectSeq([i \in DOMAIN df |-> [date |-> df[i].date, close |-> ToNumeric(df[i].close)]],
              LAMBDA r : r.close # NaN)

\* lines 104-111: the tables the cleaning can return for a list of records
CleanHistory(rows) ==
    {NumericClose(DropDuplicates(s)) : s \in SortValues(DropNaT(StockData(rows)))}

OnFetchErrorRaise == [raised |-> TRUE, df |-> EmptyDF]

\* lines 112-114: the outer except turns any exception into an empty table
OnFetchError == [raised |-> FALSE, df |-> EmptyDF]

\* lines 74-114: the outcomes of the coroutine for one remote answer
FetchOutcomes(remote) ==
    IF remote.raises THEN {OnFetchError}
    ELSE IF remote.rows = <<>> THEN {[raised |-> FALSE, df |-> EmptyDF]}
    ELSE {[raised |-> FALSE, df |-> df] : df \in CleanHistory(remote.rows)}

NotCalled == [raised |-> FALSE, df |-> <<[date |-> NaT, close |-> NaN]>>]

-----------------------------------------------------------------------------
(* DataLoader.load_data: resolution of the required columns *)

\* The least similarity score a column is accepted with (lines 223, 238)
Threshold == 80

\* Scores a query and a column label can have: below the threshold, on it, equal
ScoreVals == {79, 80, 100}

Max(S) == CHOOSE x \in S : \A y \in S : x >= y

\* line 217, the values of normalized_columns: the original column (its place
\* in df.columns) of each key; of two columns with one key the later one stays
NormalizedColumns(cols) ==
    [k \in Range(cols) |-> Max({i \in DOMAIN cols : cols[i] = k})]

\* list(normalized_columns.keys()): the keys in the order they first occur
KeyList(cols) ==
    LET keep == {i \in DOMAIN cols : \A j \in 1..(i - 1) : cols[j] # cols[i]}
        RECURSIVE Pick(_)
        Pick(i) == IF i > Len(cols) THEN <<>>
                   ELSE (IF i \in keep THEN <<cols[i]>> ELSE <<>>) \o Pick(i + 1)
    IN Pick(1)

\* process.extractOne(query, choices, scorer=fuzz.token_sort_ratio): the first
\* of the choices with the highest score
extractOne(query, choices, sc) ==
    LET best == Max({sc[query][choices[i]] : i \in DOMAIN choices})
        at   == Min({i \in DOMAIN choices : sc[query][choices[i]] = best})
    IN [match |-> choices[at], score |-> best]

BetterAlternativeLastWins(alt_score, best_alt_score) ==
    alt_score >= best_alt_score /\ alt_score >= Threshold

\* line 238: whether an alias' best match replaces the best one so far
BetterAlternative(alt_score, best_alt_score) ==
    alt_score > best_alt_score /\ alt_score >= Threshold

\* lines 229-240: the loop over the alternative names; best.column = 0 is None
RECURSIVE AlternativeLoop(_, _, _, _)
AlternativeLoop(possible_names, cols, sc, best) ==
    IF possible_names = <<>> THEN best
    ELSE LET m == extractOne(Head(possible_names), KeyList(cols), sc) IN
         AlternativeLoop(Tail(possible_names), cols, sc,
            IF BetterAlternative(m.score, best.score)
            THEN [column |-> NormalizedColumns(cols)[m.match], score |-> m.score]
            ELSE best)

DirectAcceptedLow(s) == s >= Threshold - 1

\* line 223: whether the field name's own best match is accepted
DirectAccepted(s) == s >= Threshold

\* lines 220-246, one turn of the loop: the column a required field resolves to
ResolveField(field, possible_names, cols, sc) ==
    LET direct == extractOne(field, KeyList(cols), sc) IN
    IF DirectAccepted(direct.score)
    THEN [found |-> TRUE, column |-> NormalizedColumns(cols)[direct.match],
          score |-> direct.score, phase |-> 1]
    ELSE LET alt == AlternativeLoop(possible_names, cols, sc,
                                    [column |-> 0, score |-> 0]) IN
         IF alt.column # 0
         THEN [found |-> TRUE, column |-> alt.column, score |-> alt.score, phase |-> 2]
         ELSE [found |-> FALSE, column |-> 0, score |-> 0, phase |-> 2]

\* Column lists of 1..n labels over the keys K; two labels may share a key
ColumnLists(K, n) == SeqsUpTo(K, n) \ {<<>>}

\* Score tables: a label equal to the query scores 100
ScoreTables(Q, K) ==
    {t \in [Q -> [K -> ScoreVals]] : \A q \in Q : q \in K => t[q][q] = 100}

-----------------------------------------------------------------------------
(* DataLoader.load_data: the whole function *)

\* lines 194-214: the required fields of a file type, a date and one value
\* field, each with its alternative names
required_fields ==
    <<[field |-> "date",  names |-> <<"date_alias">>],
      [field |-> "value", names |-> <<"value_alias">>]>>

FieldNames == {required_fields[i].field : i \in DOMAIN required_fields}

\* The keys of the columns and the queries scored against them
LoadKeys == {"k1", "k2"}
LoadQueries == FieldNames
               \cup UNION {Range(required_fields[i].names) : i \in DOMAIN required_fields}

\* lines 173-189: what the dialog and the reader can give: no file chosen, a
\* file of another format, a file the reader raises on, or a table
FileSelections == {"none", "unsupported", "unreadable", "excel", "csv"}

Readable(sel) == sel \in {"excel", "csv"}

OnUnresolvedContinue(mapped) == [ok |-> TRUE, mapped |-> mapped]

\* lines 244-246: a required field without a column ends the loop and the load
OnUnresolved(mapped) == [ok |-> FALSE, mapped |-> mapped]

\* lines 220-246: the loop over the required fields
RECURSIVE ResolveLoop(_, _, _, _)
ResolveLoop(fields, cols, sc, mapped) ==
    IF fields = <<>> THEN [ok |-> TRUE, mapped |-> mapped]
    ELSE LET r == ResolveField(Head(fields).field, Head(fields).names, cols, sc) IN
         IF r.found
         THEN ResolveLoop(Tail(fields), cols, sc, mapped @@ (Head(fields).field :> r.column))
         ELSE OnUnresolved(mapped)

\* lines 249-253: two fields renamed from one column leave no 'date' column,
\* and df['date'] raises
RenameGivesDate(mapped) == mapped["date"] # mapped["value"]

\* A date cell of the file: text with a day and a time of day, or junk
DateCells == [kind : {"text"}, day : Days, tod : {0, 1}]
             \cup [kind : {"junk"}, day : {0}, tod : {0}]

\* A value cell of the file
ValueCells == {"5", "7", "n/a"}

RawTables(n) == SeqsUpTo([date : DateCells, value : ValueCells], n)

\* line 253: pd.to_datetime(errors='coerce').dt.normalize() of one cell
ToDatetime(c) == IF c.kind = "text" THEN c.day ELSE NaT

ParseDates(rows) ==
    [i \in DOMAIN rows |-> [date |-> ToDatetime(rows[i].date), value |-> rows[i].value]]

\* lines 263-267: the value field coerced to a number, rows without one dropped
NumericValue(df) ==
    SelectSeq([i \in DOMAIN df |-> [date |-> df[i].date, value |-> ToNumeric(df[i].value)]],
              LAMBDA r : r.value # NaN)

\* lines 253-267 in the order of the code: dates parsed, rows without a date
\* dropped, sorted, one row kept per date, and only then the values coerced
CleanRows(rows) ==
    {NumericValue(DropDuplicates(t)) : t \in SortValues(DropNaT(ParseDates(rows)))}

\* lines 157-272: the tables load_data can return
LoadOutcomes(sel, cols, sc, rows) ==
    IF ~Readable(sel) THEN {EmptyDF}
    ELSE LET r == ResolveLoop(required_fields, cols, sc, <<>>) IN
         IF ~r.ok THEN {EmptyDF}
         ELSE IF ~RenameGivesDate(r.mapped) THEN {EmptyDF}
         ELSE CleanRows(rows)

-----------------------------------------------------------------------------
(* DataFetcher.fetch_all_symbols and the combined price table of main() *)

\* The symbol ids are opaque: the numbers 1..MaxSymbols
SymbolIds == 1..MaxSymbols

\* What the user can type: distinct ids, or a list that ends with its first
\* id again
SymbolLists ==
    {[i \in 1..k |-> i] : k \in 1..MaxSymbols}
    \cup {[i \in 1..k |-> IF i = k THEN 1 ELSE i] : k \in 2..MaxSymbols}

\* A history of the days S, latest first, in the Jalali calendar
RECURSIVE HistoryOf(_)
HistoryOf(S) ==
    IF S = {} THEN <<>>
    ELSE <<[date |-> [kind |-> "jalali", day |-> Max(S) + JalaliShift, tod |-> 0],
            close |-> "10"]>> \o HistoryOf(S \ {Max(S)})

\* The answers of the remote source the main flow is run with
PipelineRemotes ==
    {[raises |-> TRUE, rows |-> <<>>], [raises |-> FALSE, rows |-> <<>>],
     [raises |-> FALSE, rows |-> <<[date |-> [kind |-> "other", day |-> 0, tod |-> 0],
                                    close |-> "10"]>>]}
    \cup {[raises |-> FALSE, rows |-> HistoryOf(S)] :
            S \in {Days, {1}, {MaxDay}, Days \ {1}}}

\* lines 59-114: what fetch_daily_history returns for each of these answers,
\* and whether the fetch failed (the remote call raised or the history is empty)
PipelineAnswers ==
    UNION {{[out |-> out, failed |-> remote.raises \/ remote.rows = <<>>] :
                out \in FetchOutcomes(remote)} : remote \in PipelineRemotes}

EmptyDict == [keys |-> <<>>, val |-> <<>>]

\* line 133, dict(zip(symbol_ids, results)): the keys in the order they first
\* occur, each with the result of the last task of that id
DictZip(ids, res) ==
    [keys |-> KeyList(ids),
     val  |-> [k \in Range(ids) |-> res[Max({i \in DOMAIN ids : ids[i] = k})].df]]

GatherSlotByCompletion(i, tk) == 1 + Cardinality({j \in DOMAIN tk : tk[j] = "done"})

\* line 132: gather puts the result of the i-th awaitable in the i-th place of
\* its list, whenever that awaitable completes
GatherSlot(i, tk) == i

GatherReadyFirst(tk, res) == \E i \in DOMAIN tk : tk[i] = "done"

\* line 132, asyncio.gather without return_exceptions: it returns when every
\* task is done, and raises as soon as one task has raised
GatherReady(tk, res) ==
    \/ \A i \in DOMAIN tk : tk[i] = "done"
    \/ \E i \in DOMAIN tk : tk[i] = "done" /\ res[i].raised

\* pd.DataFrame() of line 677: no columns, no rows
EmptyPrices == [cols |-> <<>>, rows |-> <<>>]

IsEmptyNoColumns(table) == table.cols = <<>>

\* DataFrame.empty
IsEmpty(table) == table.rows = <<>> \/ table.cols = <<>>

LoadFailedNever(df) == FALSE

\* line 293: df.empty of a loaded table
LoadFailed(df) == df = EmptyDF

\* line 680: df[['date', 'close']].rename(columns={'close': symbol_id})
FromSymbol(id, df) ==
    [cols |-> <<id>>,
     rows |-> [i \in DOMAIN df |-> [date |-> df[i].date, close |-> (id :> df[i].close)]]]

\* line 684: prices.merge(df, on='date', how='inner')
MergeInner(table, id, df) ==
    LET closeOf(d) == (CHOOSE r \in Range(df) : r.date = d).close
        common == SelectSeq(table.rows, LAMBDA r : \E x \in Range(df) : x.date = r.date)
    IN [cols |-> Append(table.cols, id),
        rows |-> [i \in DOMAIN common |->
                    [date |-> common[i].date,
                     close |-> common[i].close @@ (id :> closeOf(common[i].date))]]]

\* lines 679-684: one turn of the loop over symbol_data.items()
CombineOne(table, id, df) ==
    IF df = EmptyDF THEN table
    ELSE IF IsEmpty(table) THEN FromSymbol(id, df)
    ELSE MergeInner(table, id, df)

\* lines 677-684: the loop
RECURSIVE CombineLoop(_, _, _)
CombineLoop(table, keys, val) ==
    IF keys = <<>> THEN table
    ELSE CombineLoop(CombineOne(table, Head(keys), val[Head(keys)]), Tail(keys), val)

\* line 688: set_index('date').sort_index(); the dates of the table are unique
SortIndex(table) ==
    [cols |-> table.cols, rows |-> CHOOSE t \in SortValues(table.rows) : TRUE]

-----------------------------------------------------------------------------
(* Preprocessor *)

Abs(x) == IF x < 0 THEN -x ELSE x

RECURSIVE GCD(_, _)
GCD(a, b) == IF b = 0 THEN a ELSE GCD(b, a % b)

\* The float num / den as a fraction in lowest terms: 0/0 is NaN, x/0 is inf
Frac(num, den) ==
    IF den = 0
    THEN [num |-> IF num = 0 THEN 0 ELSE IF num > 0 THEN 1 ELSE -1, den |-> 0]
    ELSE LET g == GCD(Abs(num), den) IN [num |-> num \div g, den |-> den \div g]

\* One cell of pct_change(): (cur - prev) / prev, of values that are not missing
Change(cur, prev) == Frac(cur - prev, prev)
\* The NaN of a column of changes
NoChange == [num |-> 0, den |-> 0]

\* The dates of a series or table, as a set and as its index in row order
Dates(series) == {series[i].date : i \in DOMAIN series}
Index(series) == [i \in DOMAIN series |-> series[i].date]

\* series.loc[index]: the rows of the dates of index, in the order of index
RECURSIVE Loc(_, _)
Loc(series, index) ==
    IF index = <<>> THEN <<>>
    ELSE <<CHOOSE r \in Range(series) : r.date = Head(index)>> \o Loc(series, Tail(index))

\* line 321, prices.pct_change().dropna(): the first row has no return, and a
\* row with a 0/0 in some column is dropped with it
calculate_returns(table) ==
    [cols |-> table.cols,
     rows |-> SelectSeq(
                [i \in 1..(Len(table.rows) - 1) |->
                    [date |-> table.rows[i + 1].date,
                     close |-> [c \in Range(table.cols) |->
                                  Change(table.rows[i + 1].close[c], table.rows[i].close[c])]]],
                LAMBDA r : \A c \in Range(table.cols) : r.close[c] # NoChange)]

\* An input of align_datasets is seen through its index and its missing cells:
\* a row is its date and whether one of its cells is missing
Series(series) ==
    [i \in DOMAIN series |-> [date |-> series[i].date, na |-> series[i].value = NaN]]
Frame(rows, cols) ==
    [i \in DOMAIN rows |->
        [date |-> rows[i].date, na |-> \E c \in Range(cols) : rows[i].close[c] = NoChange]]

IndexIntersectionLeft(index, other) == index

\* line 357, Index.intersection of two indexes in date order
IndexIntersection(index, other) == SelectSeq(index, LAMBDA d : d \in Range(other))

\* lines 355-357: the loop over datasets[1:]
RECURSIVE CommonDates(_, _)
CommonDates(common_dates, rest) ==
    IF rest = <<>> THEN common_dates
    ELSE CommonDates(IndexIntersection(common_dates, Index(Head(rest))), Tail(rest))

DropNaKeepsAll(index, datasets) == index

\* lines 366-367, concat of the restricted inputs and dropna(): a date stays
\* when no input has a missing cell at it
DropNa(index, datasets) ==
    SelectSeq(index, LAMBDA d : \A i \in DOMAIN datasets :
                                  \A r \in Range(datasets[i]) : r.date = d => ~r.na)

\* lines 343-373: the index of the table returned, <<>> for pd.DataFrame();
\* datasets[0] of an empty argument list raises, which line 371 catches
align_datasets(datasets) ==
    IF datasets = <<>> THEN <<>>
    ELSE LET common_dates == CommonDates(Index(Head(datasets)), Tail(datasets))
         IN IF Len(common_dates) = 0 THEN <<>>
            ELSE DropNa(common_dates, datasets)

\* .pct_change() of a series without missing values
PctChange(series) ==
    [i \in DOMAIN series |->
        [date |-> series[i].date,
         value |-> IF i = 1 THEN NoChange
                   ELSE Change(series[i].value, series[i - 1].value)]]

\* .bfill(): a NaN takes the next value that is not NaN, if there is one
Bfill(series) ==
    [i \in DOMAIN series |->
        [date |-> series[i].date,
         value |-> LET later == {j \in i..Len(series) : series[j].value # NoChange}
                   IN IF later = {} THEN NoChange ELSE series[Min(later)].value]]

\* lines 419-420: series.loc[combined.index].pct_change().bfill()
PctChangeBfill(series) == Bfill(PctChange(series))

\* lines 401-410: the five inputs handed to align_datasets
AlignInputs(table, market_returns, risk_free_rate, market_cap, usd_to_rial) ==
    LET stock_returns == calculate_returns(table)
    IN <<Frame(stock_returns.rows, stock_returns.cols), Series(market_returns),
         Series(risk_free_rate), Series(market_cap), Series(usd_to_rial)>>

\* lines 418-427: the target table y on the aligned index, rows with a NaN dropped
BuildY(index, market_returns, risk_free_rate, market_cap, usd_to_rial) ==
    LET mr == Loc(market_returns, index)
        rf == Loc(risk_free_rate, index)
        mc == PctChangeBfill(Loc(market_cap, index))
        fx == PctChangeBfill(Loc(usd_to_rial, index))
    IN SelectSeq([i \in DOMAIN index |->
                    [date |-> index[i],
                     excess_return |-> Frac(mr[i].value - rf[i].value, 1),
                     market_cap_change |-> mc[i].value,
                     usd_to_rial_change |-> fx[i].value]],
                 LAMBDA r : r.market_cap_change # NoChange
                            /\ r.usd_to_rial_change # NoChange)

CombinedFinalLastRows(X, y) == SubSeq(X, Len(X) - Len(y) + 1, Len(X))

\* line 430: X.loc[y.index]
CombinedFinal(X, y) == Loc(X, Index(y))

\* sklearn's train_test_split(test_size=0.33): ceil(0.33 * n) rows to test
TestSizeFloor(n) == (33 * n) \div 100
TestSizeThird(n) == n \div 3
TestSize(n) == (33 * n + 99) \div 100

SplitRaisesNever(n_train) == FALSE

\* train_test_split raises ValueError when the train set would be empty
SplitRaises(n_train) == n_train = 0

SplitRowsFromEnd(table, n_train) ==
    [train |-> SubSeq(table, Len(table) - n_train + 1, Len(table)),
     test  |-> SubSeq(table, 1, Len(table) - n_train)]

\* shuffle=False: the first n_train rows to train, the others to test
SplitRows(table, n_train) ==
    [train |-> SubSeq(table, 1, n_train),
     test  |-> SubSeq(table, n_train + 1, Len(table))]

\* (None, None, None, None)
NoSplit == [ok |-> FALSE, X_train |-> <<>>, X_test |-> <<>>, y_train |-> <<>>, y_test |-> <<>>]

\* lines 436-438, and line 441 when the split raises
train_test_split(X, y) ==
    LET n == Len(X)
        n_train == n - TestSize(n)
    IN IF SplitRaises(n_train) THEN NoSplit
       ELSE [ok |-> TRUE,
             X_train |-> SplitRows(X, n_train).train,
             X_test  |-> SplitRows(X, n_train).test,
             y_train |-> SplitRows(y, n_train).train,
             y_test  |-> SplitRows(y, n_train).test]

\* lines 399-443
process_data(table, market_returns, risk_free_rate, market_cap, usd_to_rial) ==
    LET stock_returns == calculate_returns(table)
        combined == align_datasets(AlignInputs(table, market_returns, risk_free_rate,
                                               market_cap, usd_to_rial))
        X == Loc(stock_returns.rows, combined)
        y == BuildY(combined, market_returns, risk_free_rate, market_cap, usd_to_rial)
        combined_final == CombinedFinal(X, y)
    IN IF combined = <<>> THEN NoSplit
       ELSE IF combined_final = <<>> THEN NoSplit
       ELSE train_test_split(combined_final, y)

-----------------------------------------------------------------------------
(* Idle values of the variable groups a specification does not use *)

MainIdle ==
    /\ pc = "idle"
    /\ data_files = <<>>
    /\ load_log = <<>>
    /\ symbol_ids = <<>>
    /\ task = <<>>
    /\ results = <<>>
    /\ gathered = <<>>
    /\ done_order = <<>>
    /\ failed = <<>>
    /\ symbol_data = EmptyDict
    /\ prices = EmptyPrices
    /\ split = NoSplit
    /\ files_written = {}

FetchIdle ==
    /\ daily_history = [raises |-> FALSE, rows |-> <<>>]
    /\ stock_df = NotCalled

LoadIdle ==
    /\ file_sel = "idle"
    /\ columns = <<>>
    /\ score = <<>>
    /\ mapped_columns = <<>>
    /\ raw_rows = <<>>
    /\ load_pc = "idle"
    /\ load_out = <<>>

NoBuilt == [X |-> <<>>, y |-> <<>>, combined_final |-> <<>>]

PrepIdle ==
    /\ prep_pc = "idle"
    /\ prep_args = <<>>
    /\ prep_datasets = <<>>
    /\ prep_combined = <<>>
    /\ built = NoBuilt
    /\ prep_out = NoSplit

-----------------------------------------------------------------------------
(* The main flow: main() of lines 636-918 *)

\* line 646
required_file_types == <<"market", "risk_free_rate", "market_cap", "usd_to_rial">>

\* A header whose columns resolve: the date by its name, the value by its alias
GoodColumns == <<"k1", "k2">>
GoodScore ==
    [q \in LoadQueries |-> [k \in LoadKeys |->
        IF (q = "date" /\ k = "k1") \/ (q = "value_alias" /\ k = "k2") THEN 100 ELSE 79]]
\* A header in which nothing resembles the value field
BadScore ==
    [q \in LoadQueries |-> [k \in LoadKeys |-> IF q = "date" /\ k = "k1" THEN 80 ELSE 79]]

\* Rows of the days S, latest first, each with a time of day
RECURSIVE RowsOf(_)
RowsOf(S) ==
    IF S = {} THEN <<>>
    ELSE <<[date |-> [kind |-> "text", day |-> Max(S), tod |-> 1], value |-> "5"]>>
         \o RowsOf(S \ {Max(S)})

\* The files the main flow is run with: none chosen, one of another format,
\* one whose value column cannot be resolved, one without a valid row, and
\* two good ones
PipelineFiles ==
    {[sel |-> "none", columns |-> <<>>, score |-> <<>>, rows |-> <<>>],
     [sel |-> "unsupported", columns |-> <<>>, score |-> <<>>, rows |-> <<>>],
     [sel |-> "csv", columns |-> GoodColumns, score |-> BadScore, rows |-> RowsOf(Days)],
     [sel |-> "csv", columns |-> GoodColumns, score |-> GoodScore,
      rows |-> <<[date |-> [kind |-> "text", day |-> 1, tod |-> 0], value |-> "n/a"]>>],
     [sel |-> "excel", columns |-> GoodColumns, score |-> GoodScore, rows |-> RowsOf(Days)],
     [sel |-> "csv", columns |-> GoodColumns, score |-> GoodScore,
      rows |-> RowsOf(Days \ {2})]}

Init ==
    /\ pc = "load"
    /\ data_files = <<>>
    /\ load_log = <<>>
    /\ symbol_ids = <<>>
    /\ task = <<>>
    /\ results = <<>>
    /\ gathered = <<>>
    /\ done_order = <<>>
    /\ failed = <<>>
    /\ symbol_data = EmptyDict
    /\ prices = EmptyPrices
    /\ split = NoSplit
    /\ files_written = {}
    /\ FetchIdle
    /\ LoadIdle
    /\ PrepIdle

\* lines 290-296, one turn of the loop of load_multiple_files: the next file
\* type is loaded, and an empty table ends the run with sys.exit(1)
LoadNextFile ==
    /\ pc = "load"
    /\ LET file_type == required_file_types[Len(load_log) + 1] IN
       \E f \in PipelineFiles : \E df \in LoadOutcomes(f.sel, f.columns, f.score, f.rows) :
          /\ load_log' = Append(load_log, file_type)
          /\ IF LoadFailed(df)
             THEN /\ pc' = "exit1"
                  /\ UNCHANGED data_files
             ELSE /\ data_files' = data_files @@ (file_type :> df)
                  /\ pc' = IF Len(load_log) + 1 = Len(required_file_types)
                           THEN "input" ELSE "load"
    /\ UNCHANGED <<symbol_ids, task, results, gathered, done_order, failed, symbol_data,
                   prices, split,
                   files_written, fetchVars, loadVars, prepVars>>

\* lines 663-674 and 131: the ids are read and one task per id is handed to
\* asyncio.gather
ReadSymbolIds ==
    /\ pc = "input"
    /\ \E ids \in SymbolLists :
          /\ symbol_ids' = ids
          /\ task' = [i \in DOMAIN ids |-> "awaiting"]
          /\ results' = [i \in DOMAIN ids |-> NotCalled]
          /\ gathered' = [i \in DOMAIN ids |-> NotCalled]
          /\ failed' = [i \in DOMAIN ids |-> FALSE]
    /\ done_order' = <<>>
    /\ pc' = "gather"
    /\ UNCHANGED <<data_files, load_log, symbol_data, prices, split, files_written,
                   fetchVars, loadVars, prepVars>>

\* lines 77-114: the remote source answers task i, which runs to its end
TaskComplete(i) ==
    /\ pc = "gather"
    /\ task[i] = "awaiting"
    /\ \E answer \in PipelineAnswers :
          /\ results' = [results EXCEPT ![i] = answer.out]
          /\ gathered' = [gathered EXCEPT ![GatherSlot(i, task)] = answer.out]
          /\ failed' = [failed EXCEPT ![i] = answer.failed]
    /\ done_order' = Append(done_order, i)
    /\ task' = [task EXCEPT ![i] = "done"]
    /\ UNCHANGED <<pc, data_files, load_log, symbol_ids, symbol_data, prices, split,
                   files_written, fetchVars, loadVars, prepVars>>

\* line 77: the remote source never answers task i; nothing times the await out
TaskHang(i) ==
    /\ pc = "gather"
    /\ task[i] = "awaiting"
    /\ task' = [task EXCEPT ![i] = "hung"]
    /\ UNCHANGED <<pc, data_files, load_log, symbol_ids, results, gathered, done_order,
                   failed, symbol_data, prices, split, files_written,
                   fetchVars, loadVars, prepVars>>

\* lines 132-133 and 674: gather hands the results over, or raises what a task
\* raised, which nothing in main() catches; the order the tasks completed in
\* is not kept
GatherReturn ==
    /\ pc = "gather"
    /\ GatherReady(task, results)
    /\ IF \E i \in DOMAIN task : task[i] = "done" /\ results[i].raised
       THEN /\ pc' = "crashed"
            /\ task' = [i \in DOMAIN task |->
                          IF task[i] = "done" THEN "done" ELSE "cancelled"]
            /\ UNCHANGED symbol_data
       ELSE /\ pc' = "combine"
            /\ symbol_data' = DictZip(symbol_ids, gathered)
            /\ UNCHANGED task
    /\ done_order' = <<>>
    /\ UNCHANGED <<data_files, load_log, symbol_ids, results, gathered, failed, prices,
                   split, files_written, fetchVars, loadVars, prepVars>>

\* lines 676-688: the combined price table, and sys.exit(1) when it is empty
CombinePrices ==
    /\ pc = "combine"
    /\ \E table \in {CombineLoop(EmptyPrices, symbol_data.keys, symbol_data.val)} :
          IF IsEmpty(table)
          THEN /\ prices' = table
               /\ pc' = "exit1"
          ELSE /\ prices' = SortIndex(table)
               /\ pc' = "preprocess"
    /\ UNCHANGED <<data_files, load_log, symbol_ids, task, results, gathered, done_order,
                   failed, symbol_data,
                   split, files_written, fetchVars, loadVars, prepVars>>

XTrainIsNoneNever(s) == FALSE

\* line 727: X_train is None
XTrainIsNone(s) == ~s.ok

\* lines 696-729: the four series and process_data, sys.exit(1) when it fails
Preprocess ==
    /\ pc = "preprocess"
    /\ split' = process_data(prices, data_files["market"], data_files["risk_free_rate"],
                             data_files["market_cap"], data_files["usd_to_rial"])
    /\ pc' = IF XTrainIsNone(split') THEN "exit1" ELSE "fit"
    /\ UNCHANGED <<data_files, load_log, symbol_ids, task, results, gathered, done_order,
                   failed, symbol_data,
                   prices, files_written, fetchVars, loadVars, prepVars>>

\* lines 731-855: the models are fitted and evaluated by the optimisation
\* library; sys.exit(1) when no summary could be made
FitAndEvaluate ==
    /\ pc = "fit"
    /\ pc' \in {"export", "exit1"}
    /\ UNCHANGED <<data_files, load_log, symbol_ids, task, results, gathered, done_order,
                   failed, symbol_data,
                   prices, split, files_written, fetchVars, loadVars, prepVars>>

\* lines 860-917: the weights are written to the csv file, then to the xlsx
\* file; an exception on the way is logged
Export ==
    /\ pc = "export"
    /\ files_written' \in {{}, {"Optimized_Portfolio_Weights.csv"},
                           {"Optimized_Portfolio_Weights.csv",
                            "Optimized_Portfolio_Weights.xlsx"}}
    /\ pc' = "done"
    /\ UNCHANGED <<data_files, load_log, symbol_ids, task, results, gathered, done_order,
                   failed, symbol_data,
                   prices, split, fetchVars, loadVars, prepVars>>

Next ==
    \/ LoadNextFile
    \/ ReadSymbolIds
    \/ \E i \in 1..MaxSymbols : i \in DOMAIN task /\ TaskComplete(i)
    \/ \E i \in 1..MaxSymbols : i \in DOMAIN task /\ TaskHang(i)
    \/ GatherReturn
    \/ CombinePrices
    \/ Preprocess
    \/ FitAndEvaluate
    \/ Export

Spec == Init /\ [][Next]_vars

\* The main flow from the point where the four files have been loaded
InitAfterLoad ==
    /\ pc = "input"
    /\ data_files = [t \in Range(required_file_types) |->
                        CHOOSE df \in LoadOutcomes("excel", GoodColumns, GoodScore, RowsOf(Days)) :
                            TRUE]
    /\ load_log = required_file_types
    /\ symbol_ids = <<>>
    /\ task = <<>>
    /\ results = <<>>
    /\ gathered = <<>>
    /\ done_order = <<>>
    /\ failed = <<>>
    /\ symbol_data = EmptyDict
    /\ prices = EmptyPrices
    /\ split = NoSplit
    /\ files_written = {}
    /\ FetchIdle
    /\ LoadIdle
    /\ PrepIdle

NextAfterLoad ==
    \/ ReadSymbolIds
    \/ \E i \in 1..MaxSymbols : i \in DOMAIN task /\ TaskComplete(i)
    \/ \E i \in 1..MaxSymbols : i \in DOMAIN task /\ TaskHang(i)
    \/ GatherReturn
    \/ CombinePrices
    \/ Preprocess
    \/ FitAndEvaluate
    \/ Export

\* The event loop runs every task whose await has been answered, and main()
\* runs on once gather is ready; whether the remote source answers is not up
\* to the program, but each await is settled one way or the other.
FairSpec ==
    /\ InitAfterLoad
    /\ [][NextAfterLoad]_vars
    /\ \A i \in 1..MaxSymbols : WF_vars(i \in DOMAIN task /\ (TaskComplete(i) \/ TaskHang(i)))
    /\ WF_vars(GatherReturn)
    /\ WF_vars(CombinePrices)

-----------------------------------------------------------------------------
(* Specification of fetch_daily_history alone, over every remote answer *)

InitFetch ==
    /\ daily_history \in Remotes(MaxHist)
    /\ stock_df = NotCalled
    /\ MainIdle
    /\ LoadIdle
    /\ PrepIdle

FetchDailyHistory ==
    /\ stock_df = NotCalled
    /\ stock_df' \in FetchOutcomes(daily_history)
    /\ UNCHANGED <<daily_history, mainVars, loadVars, prepVars>>

NextFetch == FetchDailyHistory

SpecFetch == InitFetch /\ [][NextFetch]_vars

-----------------------------------------------------------------------------
(* Specification of the resolution of one required field, over every score *)
(* table: a field "f" with the alternative names "a1", "a2", and columns   *)
(* whose keys are "a1", "a2" (equal to an alternative name) or "k1".       *)

ResolveField_names == <<"a1", "a2">>
ResolveKeys == {"a1", "a2", "k1"}
ResolveQueries == {"f"} \cup Range(ResolveField_names)

InitResolve ==
    /\ file_sel = "csv"
    /\ columns \in ColumnLists(ResolveKeys, MaxCols)
    /\ score \in ScoreTables(ResolveQueries, ResolveKeys)
    /\ mapped_columns = <<>>
    /\ raw_rows = <<>>
    /\ load_pc = "resolve"
    /\ load_out = <<>>
    /\ MainIdle
    /\ FetchIdle
    /\ PrepIdle

ResolveOneField ==
    /\ load_pc = "resolve"
    /\ mapped_columns' = [x \in {"f"} |-> ResolveField("f", ResolveField_names, columns, score)]
    /\ load_pc' = "resolved"
    /\ UNCHANGED <<file_sel, columns, score, raw_rows, load_out, mainVars, fetchVars, prepVars>>

NextResolve == ResolveOneField

SpecResolve == InitResolve /\ [][NextResolve]_vars

-----------------------------------------------------------------------------
(* Specification of load_data alone: the header of every file first, then  *)
(* the rows.  Once the columns are resolved the header and its scores are  *)
(* not read again and are dropped from the state.                          *)

InitLoad ==
    /\ file_sel \in FileSelections
    /\ IF Readable(file_sel)
       THEN /\ columns \in ColumnLists(LoadKeys, MaxCols)
            /\ score \in ScoreTables(LoadQueries, LoadKeys)
       ELSE /\ columns = <<>>
            /\ score = <<>>
    /\ mapped_columns = <<>>
    /\ raw_rows = <<>>
    /\ load_pc = "start"
    /\ load_out = EmptyDF
    /\ MainIdle
    /\ FetchIdle
    /\ PrepIdle

\* lines 157-246: the dialog, the reader and the resolution of the columns
LoadResolve ==
    /\ load_pc = "start"
    /\ IF ~Readable(file_sel)
       THEN /\ load_pc' = "returned"
            /\ UNCHANGED mapped_columns
       ELSE LET r == ResolveLoop(required_fields, columns, score, <<>>) IN
            /\ mapped_columns' = r.mapped
            /\ load_pc' = IF r.ok THEN "resolved" ELSE "returned"
    /\ load_out' = EmptyDF
    /\ UNCHANGED <<file_sel, columns, score, raw_rows, mainVars, fetchVars, prepVars>>

\* lines 248-250: the rename to the standard names; the header is done with
LoadRename ==
    /\ load_pc = "resolved"
    /\ load_pc' = IF RenameGivesDate(mapped_columns) THEN "renamed" ELSE "returned"
    /\ columns' = <<>>
    /\ score' = <<>>
    /\ UNCHANGED <<file_sel, mapped_columns, raw_rows, load_out, mainVars, fetchVars, prepVars>>

\* lines 252-272: the cleaning of the rows
LoadClean ==
    /\ load_pc = "renamed"
    /\ \E rows \in RawTables(MaxRows) :
        /\ raw_rows' = rows
        /\ load_out' \in CleanRows(rows)
    /\ load_pc' = "returned"
    /\ UNCHANGED <<file_sel, columns, score, mapped_columns, mainVars, fetchVars, prepVars>>

NextLoad == LoadResolve \/ LoadRename \/ LoadClean

SpecLoad == InitLoad /\ [][NextLoad]_vars

-----------------------------------------------------------------------------
(* Specification of align_datasets alone, over every list of 1..MaxInputs  *)
(* inputs: each input has some of the days in its index, in date order,    *)
(* and may hold a missing value at a date it has.                          *)

\* The rows, in date order, of an input that is "absent", "nan" or "value"
\* at each day of S
RECURSIVE InputRows(_, _)
InputRows(cell, S) ==
    IF S = {} THEN <<>>
    ELSE LET d == Min(S)
         IN (IF cell[d] = "absent" THEN <<>>
             ELSE <<[date |-> d, na |-> cell[d] = "nan"]>>) \o InputRows(cell, S \ {d})

AlignInputSet == {InputRows(cell, Days) : cell \in [Days -> {"absent", "nan", "value"}]}

InitAlign ==
    /\ prep_pc = "align"
    /\ prep_datasets \in UNION {[1..n -> AlignInputSet] : n \in 1..MaxInputs}
    /\ prep_combined = <<>>
    /\ prep_args = <<>>
    /\ built = NoBuilt
    /\ prep_out = NoSplit
    /\ MainIdle
    /\ FetchIdle
    /\ LoadIdle

\* lines 343-373
AlignDatasets ==
    /\ prep_pc = "align"
    /\ prep_combined' = align_datasets(prep_datasets)
    /\ prep_pc' = "align_returned"
    /\ UNCHANGED <<prep_args, prep_datasets, built, prep_out, mainVars, fetchVars, loadVars>>

NextAlign == AlignDatasets

SpecAlign == InitAlign /\ [][NextAlign]_vars

-----------------------------------------------------------------------------
(* Specification of process_data alone, on the dates 1..MaxDate: price     *)
(* tables and series as main() hands them over, in date order, one row per *)
(* date and without missing values.                                        *)

ProcessDays == 1..MaxDate

\* A series with value[d] at each day d of S, in date order
RECURSIVE SeriesOf(_, _)
SeriesOf(value, S) ==
    IF S = {} THEN <<>>
    ELSE LET d == Min(S)
         IN <<[date |-> d, value |-> value[d]]>> \o SeriesOf(value, S \ {d})

\* A price table with close[c][d] in column c at each day d of S
RECURSIVE PriceRows(_, _, _)
PriceRows(cols, close, S) ==
    IF S = {} THEN <<>>
    ELSE LET d == Min(S)
         IN <<[date |-> d, close |-> [c \in Range(cols) |-> close[c][d]]]>>
            \o PriceRows(cols, close, S \ {d})

\* The price tables: every day; a stock at 0 on the first two days; one day
\* only; a day missing; two stocks, the second at 0 on the last two days
ProcessPrices ==
    LET rising == [d \in ProcessDays |-> 10 + d]
        zero_first == [d \in ProcessDays |-> IF d <= 2 THEN 0 ELSE 10 + d]
        zero_last == [d \in ProcessDays |-> IF d >= MaxDate - 1 THEN 0 ELSE 10 + d]
    IN {[cols |-> <<1>>, rows |-> PriceRows(<<1>>, <<rising>>, ProcessDays)],
        [cols |-> <<1>>, rows |-> PriceRows(<<1>>, <<zero_first>>, ProcessDays)],
        [cols |-> <<1>>, rows |-> PriceRows(<<1>>, <<rising>>, {1})],
        [cols |-> <<1>>, rows |-> PriceRows(<<1>>, <<rising>>, ProcessDays \ {2})],
        [cols |-> <<1, 2>>, rows |-> PriceRows(<<1, 2>>, <<rising, zero_last>>, ProcessDays)]}

\* The risk-free series: any days, the rate 1
ProcessRiskFree ==
    {SeriesOf([d \in ProcessDays |-> 1], S) : S \in (SUBSET ProcessDays) \ {{}}}

\* The market-cap series: any days, at each the value 0 or 20 + d
ProcessMarketCap ==
    {SeriesOf([d \in ProcessDays |-> IF d \in Z THEN 0 ELSE 20 + d], S) :
        Z \in SUBSET ProcessDays, S \in (SUBSET ProcessDays) \ {{}}}

\* The exchange-rate series: every day, rising, or at 0 on the last two days
ProcessUsdToRial ==
    {SeriesOf([d \in ProcessDays |-> 30 + d], ProcessDays),
     SeriesOf([d \in ProcessDays |-> IF d >= MaxDate - 1 THEN 0 ELSE 30 + d], ProcessDays)}

InitProcess ==
    /\ prep_pc = "process"
    /\ prep_args \in [prices : ProcessPrices,
                      market_returns : {SeriesOf([d \in ProcessDays |-> 5 + d], ProcessDays)},
                      risk_free_rate : ProcessRiskFree,
                      market_cap : ProcessMarketCap,
                      usd_to_rial : ProcessUsdToRial]
    /\ prep_datasets = <<>>
    /\ prep_combined = <<>>
    /\ built = NoBuilt
    /\ prep_out = NoSplit
    /\ MainIdle
    /\ FetchIdle
    /\ LoadIdle

\* lines 401-414: the returns, the alignment, and the return when it is empty
ProcessAlign ==
    /\ prep_pc = "process"
    /\ prep_datasets' = AlignInputs(prep_args.prices, prep_args.market_returns,
                                    prep_args.risk_free_rate, prep_args.market_cap,
                                    prep_args.usd_to_rial)
    /\ prep_combined' = align_datasets(prep_datasets')
    /\ prep_pc' = IF prep_combined' = <<>> THEN "returned" ELSE "aligned"
    /\ UNCHANGED <<prep_args, built, prep_out, mainVars, fetchVars, loadVars>>

\* lines 416-433: X, y, combined_final, and the return when that is empty
ProcessBuild ==
    /\ prep_pc = "aligned"
    /\ \E y \in {BuildY(prep_combined, prep_args.market_returns, prep_args.risk_free_rate,
                        prep_args.market_cap, prep_args.usd_to_rial)} :
       \E X \in {Loc(calculate_returns(prep_args.prices).rows, prep_combined)} :
          built' = [X |-> X, y |-> y, combined_final |-> CombinedFinal(X, y)]
    /\ prep_pc' = IF built'.combined_final = <<>> THEN "returned" ELSE "built"
    /\ UNCHANGED <<prep_args, prep_datasets, prep_combined, prep_out,
                   mainVars, fetchVars, loadVars>>

\* lines 435-443: the split, or the failure marker when it raises
ProcessSplit ==
    /\ prep_pc = "built"
    /\ prep_out' = train_test_split(built.combined_final, built.y)
    /\ prep_pc' = "returned"
    /\ UNCHANGED <<prep_args, prep_datasets, prep_combined, built,
                   mainVars, fetchVars, loadVars>>

NextProcess == ProcessAlign \/ ProcessBuild \/ ProcessSplit

SpecProcess == InitProcess /\ [][NextProcess]_vars

-----------------------------------------------------------------------------
(* Claims about the resolution of one field (SpecResolve) *)

ObservedKeys == Range(columns)
Resolved == mapped_columns["f"]
ChosenKey == columns[Resolved.column]
BestScore(q) == Max({score[q][k] : k \in ObservedKeys})
BestDirect == BestScore("f")
BestAlias == Max({BestScore(ResolveField_names[i]) : i \in DOMAIN ResolveField_names})
\* the earliest alternative name that reaches the best score of all of them
EarliestBestAlias ==
    ResolveField_names[Min({i \in DOMAIN ResolveField_names :
                                BestScore(ResolveField_names[i]) = BestAlias})]

\* C6: two-phase resolution. If the field name's best score over the observed
\* labels is >= 80, a column with that score against the field name is taken
\* in phase 1, whatever the aliases score; otherwise, if the best score of any
\* alias is >= 80, the column taken is a best match of the earliest alias that
\* reaches that score; otherwise the resolution fails.
C6_TwoPhaseResolution ==
    load_pc = "resolved" =>
        IF BestDirect >= 80
        THEN /\ Resolved.found
             /\ Resolved.phase = 1
             /\ Resolved.score = BestDirect
             /\ score["f"][ChosenKey] = BestDirect
        ELSE IF BestAlias >= 80
        THEN /\ Resolved.found
             /\ Resolved.phase = 2
             /\ Resolved.score = BestAlias
             /\ score[EarliestBestAlias][ChosenKey] = BestAlias
        ELSE ~Resolved.found

\* Two aliases reach the same best score on different columns, and the field
\* name itself matched nothing: the earliest-alias rule decides.
C6_Witness ==
    /\ load_pc = "resolved"
    /\ BestDirect < 80
    /\ BestScore("a1") = 100
    /\ BestScore("a2") = 100
    /\ score["a1"][ChosenKey] = 100
    /\ score["a2"][ChosenKey] < 80
    /\ Resolved.phase = 2

\* C7 as stated: a column equal to an alias is always the one selected, with
\* score 100, whatever the other columns score.
C7_ExactAliasAlwaysWins ==
    load_pc = "resolved" =>
        \A a \in Range(ResolveField_names) :
            (a \in ObservedKeys /\ ObservedKeys \cap Range(ResolveField_names) = {a})
                => /\ Resolved.found
                   /\ Resolved.score = 100
                   /\ ChosenKey = a

\* C7 amended: when no observed label scores >= 80 against the field name
\* itself and a column is equal to an alias, resolution succeeds in the alias
\* phase with score 100 on a column that scores 100 against an alias; that is
\* the exact-match column whenever it is the only column scoring 100 against
\* any alias.  A column that scores >= 80 against the field name itself is
\* taken by the first phase instead, with that score.
C7_ExactAliasWinsInAliasPhase ==
    load_pc = "resolved" =>
        \A a \in Range(ResolveField_names) :
            /\ (a \in ObservedKeys /\ BestDirect >= 80)
                => /\ Resolved.phase = 1
                   /\ Resolved.score = BestDirect
                   /\ score["f"][ChosenKey] >= 80
            /\ (a \in ObservedKeys /\ BestDirect < 80)
                => /\ Resolved.found
                   /\ Resolved.phase = 2
                   /\ Resolved.score = 100
                   /\ \E b \in Range(ResolveField_names) : score[b][ChosenKey] = 100
                   /\ (\A k \in ObservedKeys \ {a} : \A b \in Range(ResolveField_names) :
                           score[b][k] < 100)
                        => ChosenKey = a

\* An exact alias column next to a decoy that scores >= 80 against the other
\* alias; the alias phase runs and takes the exact column.
C7_Witness ==
    /\ load_pc = "resolved"
    /\ columns = <<"k1", "a2">>
    /\ BestDirect < 80
    /\ score["a1"]["k1"] = 80
    /\ Resolved.phase = 2
    /\ Resolved.score = 100
    /\ ChosenKey = "a2"

-----------------------------------------------------------------------------
(* Claims about the main flow (Spec, FairSpec) *)

AllDone == \A i \in DOMAIN task : task[i] = "done"
SomeHung == \E i \in DOMAIN task : task[i] = "hung"

\* gather has returned to main()
PastGather ==
    \/ pc \in {"combine", "preprocess", "fit", "export", "done"}
    \/ pc = "exit1" /\ symbol_data.keys # <<>>

\* the combining step of lines 676-688 has run
Combined ==
    \/ pc \in {"preprocess", "fit", "export", "done"}
    \/ pc = "exit1" /\ symbol_data.keys # <<>>

NonEmptySymbols == {k \in Range(symbol_data.keys) : symbol_data.val[k] # EmptyDF}

\* C1 as stated: the dates of the combined price table are the dates common
\* to all the series that were fetched non-empty.
C1_DatesAreIntersection ==
    Combined =>
        Dates(prices.rows) =
            {d \in Days : NonEmptySymbols # {}
                          /\ \A k \in NonEmptySymbols : d \in Dates(symbol_data.val[k])}

\* C2: a failed fetch gives an empty table for its own task and nothing else:
\* no task raises into gather, none is cancelled, the run does not crash, the
\* mapping has an entry for every id, a symbol with an empty series has no
\* column in the price table, and a finished task's result never changes.
C2_FailureIsolated ==
    /\ [](/\ pc # "crashed"
          /\ \A i \in DOMAIN task :
                /\ task[i] # "cancelled"
                /\ (task[i] = "done" /\ failed[i])
                      => (results[i].df = EmptyDF /\ ~results[i].raised)
          /\ PastGather => /\ Range(symbol_data.keys) = Range(symbol_ids)
                           /\ DOMAIN symbol_data.val = Range(symbol_ids)
          /\ Combined => \A k \in Range(symbol_data.keys) :
                            symbol_data.val[k] = EmptyDF => k \notin Range(prices.cols))
    /\ [][\A i \in DOMAIN task :
            task[i] = "done" => (task'[i] = "done" /\ results'[i] = results[i])]_vars

\* One task failed, another did not, and only the latter has a column.
C2_Witness ==
    /\ Combined
    /\ \E i, j \in DOMAIN task :
          /\ failed[i]
          /\ symbol_ids[i] \notin Range(prices.cols)
          /\ results[j].df # EmptyDF
          /\ symbol_ids[j] \in Range(prices.cols)

\* C3: the combining step runs only after every task has finished; once all
\* have finished it does run; and with a task that never finishes main()
\* stays in the join.
C3_JoinBarrier ==
    /\ [](PastGather => AllDone)
    /\ [](SomeHung => pc = "gather")
    /\ (pc = "gather" /\ AllDone) ~> Combined

\* A task has finished with data while the remote source keeps another one
\* waiting for ever: main() is still in the join.
C3_Witness ==
    /\ pc = "gather"
    /\ SomeHung
    /\ \E i \in DOMAIN task : task[i] = "done" /\ results[i].df # EmptyDF

\* C4: when every series is empty, or the combined table has no row, the run
\* has ended with sys.exit(1) in the combining step: process_data was not
\* called and no file was written.
C4_NoPriceDataIsFatal ==
    (Combined /\ (NonEmptySymbols = {} \/ IsEmpty(prices) \/ prices.rows = <<>>)) =>
        /\ pc = "exit1"
        /\ split = NoSplit
        /\ files_written = {}

\* Two series were fetched and share no date.
C4_Witness ==
    /\ Combined
    /\ Cardinality(NonEmptySymbols) = 2
    /\ prices.rows = <<>>
    /\ pc = "exit1"

\* C10: the file types are loaded in the order of required_file_types; when
\* one of them loads to the empty table the run has ended with sys.exit(1)
\* right there: no further file type was loaded, no symbol id was read, no
\* task was started and no file was written; past the loading all four
\* tables are there and none is empty.
C10_MandatoryDatasets ==
    /\ Len(load_log) <= Len(required_file_types)
    /\ \A i \in DOMAIN load_log : load_log[i] = required_file_types[i]
    /\ \A t \in DOMAIN data_files : t \in Range(load_log) /\ data_files[t] # EmptyDF
    /\ (\E t \in Range(load_log) : t \notin DOMAIN data_files) =>
          /\ pc = "exit1"
          /\ DOMAIN data_files = {load_log[i] : i \in 1..(Len(load_log) - 1)}
          /\ symbol_ids = <<>>
          /\ task = <<>>
          /\ symbol_data = EmptyDict
          /\ files_written = {}
    /\ pc \notin {"load", "exit1"} => DOMAIN data_files = Range(required_file_types)

\* The market file loaded, the risk-free file did not.
C10_Witness ==
    /\ load_log = <<"market", "risk_free_rate">>
    /\ DOMAIN data_files = {"market"}
    /\ pc = "exit1"

-----------------------------------------------------------------------------
(* Claims about fetch_daily_history (SpecFetch) *)

Returned == stock_df # NotCalled

\* C5: whatever the remote history holds, the returned series has strictly
\* increasing dates (so no date twice), and every row has a defined date and
\* a numeric close.
C5_SeriesStrictlyIncreasing ==
    Returned =>
        LET df == stock_df.df IN
        /\ \A i, j \in DOMAIN df : i < j => df[i].date < df[j].date
        /\ \A i \in DOMAIN df : df[i].date \in Days /\ df[i].close # NaN

\* A history given latest first, the same day twice under both calendars,
\* comes back as two rows.
C5_Witness ==
    /\ Returned
    /\ Len(daily_history.rows) = 3
    /\ ConvertDate(daily_history.rows[1].date) = 2
    /\ ConvertDate(daily_history.rows[2].date) = 1
    /\ ConvertDate(daily_history.rows[3].date) = 2
    /\ daily_history.rows[1].date.kind # daily_history.rows[3].date.kind
    /\ Len(stock_df.df) = 2

-----------------------------------------------------------------------------
(* Claims about load_data (SpecLoad) *)

FieldQueries(i) == {required_fields[i].field} \cup Range(required_fields[i].names)

\* no observed column reaches the threshold for the field or any of its aliases
Unresolvable(i) ==
    \A q \in FieldQueries(i) : \A k \in Range(columns) : score[q][k] < 80

HeaderKnown == load_pc # "start" /\ columns # <<>>

\* C8: when a required field has no column scoring >= 80 against its name or
\* an alias, that field is not mapped and load_data returns the empty table;
\* rows are only ever cleaned with every required field mapped; and no field
\* is ever mapped to a column scoring below 80 against all of its queries.
C8_UnresolvedFieldFailsLoad ==
    /\ HeaderKnown =>
          \A i \in DOMAIN required_fields :
              Unresolvable(i) => /\ load_pc = "returned"
                                 /\ load_out = EmptyDF
                                 /\ required_fields[i].field \notin DOMAIN mapped_columns
    /\ (load_pc \in {"resolved", "renamed"} \/ load_out # EmptyDF)
          => DOMAIN mapped_columns = FieldNames
    /\ HeaderKnown =>
          \A i \in DOMAIN required_fields :
              required_fields[i].field \in DOMAIN mapped_columns =>
                  \E q \in FieldQueries(i) :
                      score[q][columns[mapped_columns[required_fields[i].field]]] >= 80

\* The date column was resolved, the value column was not: nothing is loaded.
C8_Witness ==
    /\ HeaderKnown
    /\ load_pc = "returned"
    /\ Unresolvable(2)
    /\ ~Unresolvable(1)
    /\ DOMAIN mapped_columns = {"date"}
    /\ load_out = EmptyDF

ValidRows == {i \in DOMAIN raw_rows : /\ ToDatetime(raw_rows[i].date) # NaT
                                      /\ ToNumeric(raw_rows[i].value) # NaN}

\* C9 as stated: the returned table has exactly one row for each date that
\* some row with a parseable date and a parseable value has, and that row
\* carries the value of such a valid row.
C9_OneRowPerValidDate ==
    (load_pc = "returned" /\ DOMAIN mapped_columns = FieldNames
        /\ RenameGivesDate(mapped_columns)) =>
        /\ {load_out[i].date : i \in DOMAIN load_out}
              = {ToDatetime(raw_rows[i].date) : i \in ValidRows}
        /\ \A i, j \in DOMAIN load_out : i < j => load_out[i].date < load_out[j].date
        /\ \A i \in DOMAIN load_out : \E j \in ValidRows :
              /\ ToDatetime(raw_rows[j].date) = load_out[i].date
              /\ ToNumeric(raw_rows[j].value) = load_out[i].value

-----------------------------------------------------------------------------
(* Claims about align_datasets (SpecAlign) *)

\* the dates every input has in its index
CommonDateSet ==
    {d \in Days : \A i \in DOMAIN prep_datasets : d \in Dates(prep_datasets[i])}

\* the common dates at which no input has a missing value
CompleteDateSet ==
    {d \in CommonDateSet :
        \A i \in DOMAIN prep_datasets :
            \A j \in DOMAIN prep_datasets[i] :
                prep_datasets[i][j].date = d => ~prep_datasets[i][j].na}

\* C11: when the inputs have a date in common, the index of the table
\* returned holds exactly the common dates at which no input has a missing
\* value, each once; a date that one input lacks is never in it.
C11_IndexIsCompleteCommonDates ==
    (prep_pc = "align_returned" /\ CommonDateSet # {}) =>
        /\ Range(prep_combined) = CompleteDateSet
        /\ Cardinality(Range(prep_combined)) = Len(prep_combined)
        /\ \A i \in DOMAIN prep_datasets : \A d \in Days :
              d \notin Dates(prep_datasets[i]) => d \notin Range(prep_combined)

\* Two inputs that share every day but day 2, which the second lacks: day 2
\* is not in the result and the other days are.
C11_Witness ==
    /\ prep_pc = "align_returned"
    /\ Len(prep_datasets) = 2
    /\ Dates(prep_datasets[1]) = Days
    /\ Dates(prep_datasets[2]) = Days \ {2}
    /\ prep_combined = <<1, 3>>

\* C12 as stated: the table returned is empty exactly when the inputs have
\* no date in common.
C12_EmptyIffNoCommonDate ==
    prep_pc = "align_returned" => (prep_combined = <<>> <=> CommonDateSet = {})

\* C12 amended: the table returned is empty exactly when no date is both
\* common to all inputs and free of missing values in all of them; when no
\* input has a missing value at a common date, that is exactly when the
\* inputs have no date in common.
C12_EmptyIffNoCompleteCommonDate ==
    prep_pc = "align_returned" =>
        /\ prep_combined = <<>> <=> CompleteDateSet = {}
        /\ CompleteDateSet = CommonDateSet => (prep_combined = <<>> <=> CommonDateSet = {})

\* The inputs have dates in common, each with a missing value in some input,
\* and the result is empty.
C12_Witness ==
    /\ prep_pc = "align_returned"
    /\ Len(prep_datasets) = 2
    /\ Cardinality(CommonDateSet) = 2
    /\ prep_combined = <<>>

-----------------------------------------------------------------------------
(* Claims about process_data (SpecProcess) *)

\* process_data has returned a split, not the failure marker
SplitReturned == prep_pc = "returned" /\ prep_out.ok

\* C13: a split returned is a prefix/suffix partition of the final rows in
\* date order: X_train is the first rows and X_test the others, and every
\* date of X_train is earlier than every date of X_test.
C13_ChronologicalSplit ==
    SplitReturned =>
        /\ prep_out.X_train \o prep_out.X_test = built.combined_final
        /\ prep_out.X_train = SubSeq(built.combined_final, 1, Len(prep_out.X_train))
        /\ \A i \in 1..(Len(built.combined_final) - 1) :
              built.combined_final[i].date < built.combined_final[i + 1].date
        /\ \A a \in Dates(prep_out.X_train) : \A b \in Dates(prep_out.X_test) : a < b
        /\ Dates(prep_out.X_train) \cap Dates(prep_out.X_test) = {}

\* Three final rows: the days 2 and 3 go to train and day 4 to test.
C13_Witness ==
    /\ SplitReturned
    /\ Index(prep_out.X_train) = <<2, 3>>
    /\ Index(prep_out.X_test) = <<4>>

\* C14: a split returned over n final rows has |X_train| + |X_test| = n and
\* |X_test| = ceil(0.33 n), so that |X_train| is 0.67 n within one row.
C14_SplitSizes ==
    SplitReturned =>
        LET n == Len(built.combined_final)
            n_train == Len(prep_out.X_train)
            n_test == Len(prep_out.X_test)
        IN /\ n_train + n_test = n
           /\ 100 * n_test >= 33 * n
           /\ 100 * (n_test - 1) < 33 * n
           /\ Abs(100 * n_train - 67 * n) <= 100
           /\ Len(prep_out.y_train) = n_train
           /\ Len(prep_out.y_test) = n_test

\* Two final rows are split one and one.
C14_Witness ==
    /\ SplitReturned
    /\ Len(built.combined_final) = 2
    /\ Len(prep_out.X_train) = 1
    /\ Len(prep_out.X_test) = 1

\* .pct_change() of the whole series, then .loc[index], then .bfill()
UnrestrictedChange(series, index) == Bfill(Loc(PctChange(series), index))

\* C15 as stated: the market-cap change and the exchange-rate change of y at
\* an aligned date are the changes of the whole loaded series, relative to
\* the date before it in that series, restricted to the aligned index.
C15_ChangeOnUnrestrictedSeries ==
    prep_pc \in {"built", "returned"} =>
        \A i \in DOMAIN built.y :
            /\ \E r \in Range(UnrestrictedChange(prep_args.market_cap, prep_combined)) :
                  r.date = built.y[i].date /\ r.value = built.y[i].market_cap_change
            /\ \E r \in Range(UnrestrictedChange(prep_args.usd_to_rial, prep_combined)) :
                  r.date = built.y[i].date /\ r.value = built.y[i].usd_to_rial_change

\* C16: in a split returned X and y are row-aligned: train followed by test
\* has the same dates in the same order in both, the dates of y after its
\* incomplete rows were dropped, all of them dates of the aligned index.
C16_RowAligned ==
    SplitReturned =>
        /\ Index(prep_out.X_train \o prep_out.X_test) = Index(prep_out.y_train \o prep_out.y_test)
        /\ Index(prep_out.y_train \o prep_out.y_test) = Index(built.y)
        /\ Range(Index(built.y)) \subseteq Range(prep_combined)
        /\ Index(prep_out.X_train) = Index(prep_out.y_train)
        /\ Index(prep_out.X_test) = Index(prep_out.y_test)

\* y lost a row of the aligned index to a missing change, and X follows it.
C16_Witness ==
    /\ SplitReturned
    /\ Len(built.y) < Len(prep_combined)
    /\ Len(prep_out.X_train \o prep_out.X_test) = Len(built.y)

\* C20: a split returned has at least one row in X_train and in X_test, and
\* an aligned frame of exactly one row leads to the failure marker.
C20_NoDegenerateSplit ==
    /\ SplitReturned =>
          /\ Len(prep_out.X_train) >= 1
          /\ Len(prep_out.X_test) >= 1
          /\ Len(built.combined_final) >= 2
    /\ (prep_pc = "returned" /\ Len(prep_combined) = 1) => ~prep_out.ok

\* The aligned frame has one row; the changes have nothing to fill it from
\* and the failure marker is returned.
C20_Witness ==
    /\ prep_pc = "returned"
    /\ Len(prep_combined) = 1
    /\ built.X # <<>>
    /\ built.y = <<>>
    /\ ~prep_out.ok

-----------------------------------------------------------------------------
(* Claims about the preprocessing step of the main flow (Spec) *)

\* what align_datasets and line 430 give for the tables main() holds
MainAligned ==
    align_datasets(AlignInputs(prices, data_files["market"], data_files["risk_free_rate"],
                               data_files["market_cap"], data_files["usd_to_rial"]))
MainFinal ==
    CombinedFinal(Loc(calculate_returns(prices).rows, MainAligned),
                  BuildY(MainAligned, data_files["market"], data_files["risk_free_rate"],
                         data_files["market_cap"], data_files["usd_to_rial"]))

\* C17: the preprocessing step ends with a split or with the failure marker,
\* never with an exception; when the aligned table or the final X/y table is
\* empty it is the failure marker, and main() then exits with status 1: no
\* model is fitted without a split and no file is written.
C17_PreprocessFailureIsFatal ==
    /\ [][pc = "preprocess" =>
            /\ pc' \in {"fit", "exit1"}
            /\ (MainAligned = <<>> \/ MainFinal = <<>>) => (split' = NoSplit /\ pc' = "exit1")
            /\ split' = NoSplit => pc' = "exit1"]_vars
    /\ [](pc \in {"fit", "export", "done"} => split.ok)
    /\ []((pc = "exit1" \/ ~split.ok) => files_written = {})

\* The aligned table has a row but the final X/y table has none, and main()
\* has exited.
C17_Witness ==
    /\ pc = "exit1"
    /\ prices.rows # <<>>
    /\ MainAligned # <<>>
    /\ MainFinal = <<>>
    /\ split = NoSplit

Distinct(ids) == Cardinality(Range(ids)) = Len(ids)

\* each symbol id with the series its own task returned
OwnSeries ==
    [k \in Range(symbol_ids) |->
        results[CHOOSE i \in DOMAIN symbol_ids : symbol_ids[i] = k].df]

\* the price table lines 676-688 build from these
OwnPrices ==
    LET table == CombineLoop(EmptyPrices, symbol_ids, OwnSeries)
    IN IF table.rows = <<>> THEN table ELSE SortIndex(table)

\* C19: for distinct symbol ids, whatever the order the tasks complete in,
\* the list of gather holds the result of each task in that task's place, the
\* mapping returned gives each id the series of its own task, and the
\* combined price table is the one built from these.
C19_OwnTaskResult ==
    Distinct(symbol_ids) =>
        /\ pc = "gather" =>
              \A i \in DOMAIN task : task[i] = "done" => gathered[i] = results[i]
        /\ PastGather =>
              /\ symbol_data.keys = symbol_ids
              /\ \A i \in DOMAIN symbol_ids : symbol_data.val[symbol_ids[i]] = results[i].df
        /\ Combined => prices = OwnPrices

\* Two tasks with different series have completed, the second first, and the
\* list of gather holds each series in its own task's place.
C19_Witness ==
    /\ pc = "gather"
    /\ symbol_ids = <<1, 2>>
    /\ done_order = <<2, 1>>
    /\ results[1].df # results[2].df
    /\ results[1].df # EmptyDF
    /\ results[2].df # EmptyDF
    /\ gathered = results

-----------------------------------------------------------------------------
(* Claims about the records of unknown date (SpecFetch) *)

\* the history without its records of unknown date
WithoutUnknown(rows) == SelectSeq(rows, LAMBDA r : r.date.kind # "other")

Recognised(r) == r.date.kind \in {"jalali", "gregorian"}

\* C18: a record whose date is of neither kind takes the undefined date and
\* is dropped without an exception: the series returned has no undefined
\* date and is one the history without these records gives, and every
\* recognised record with a numeric close that is alone on its date is in it.
C18_UnknownDateDropped ==
    (Returned /\ ~daily_history.raises) =>
        /\ ~stock_df.raised
        /\ \A i \in DOMAIN stock_df.df : stock_df.df[i].date # NaT
        /\ stock_df \in FetchOutcomes([raises |-> FALSE,
                                       rows |-> WithoutUnknown(daily_history.rows)])
        /\ \A i \in DOMAIN daily_history.rows :
              LET r == daily_history.rows[i] IN
              (/\ Recognised(r)
               /\ ToNumeric(r.close) # NaN
               /\ \A j \in DOMAIN daily_history.rows \ {i} :
                     Recognised(daily_history.rows[j])
                        => ConvertDate(daily_history.rows[j].date) # ConvertDate(r.date))
                => ConvertDate(r.date) \in Dates(stock_df.df)

\* A record of unknown date between two recognised records of different
\* dates: the two come back.
C18_Witness ==
    /\ Returned
    /\ Len(daily_history.rows) = 3
    /\ daily_history.rows[2].date.kind = "other"
    /\ Recognised(daily_history.rows[1])
    /\ Recognised(daily_history.rows[3])
    /\ Dates(stock_df.df) = {1, 2}

====
